---- MODULE Spec2Model ----
(***************************************************************************)
(* EMRServerlessClient (src/livytest.py): the signed-request dispatcher    *)
(* _send_request with its retry/backoff loop, and the session operations   *)
(* built on it.  One client object, single-threaded: an operation runs to  *)
(* completion before the next one is called.                               *)
(***************************************************************************)
EXTENDS Integers, Sequences, FiniteSets, TLC

\* ------------------------------------------------------------------ bounds
\* Largest max_retries a direct call of _send_request is given.
MaxRetriesBound == 3
\* Smallest and largest self.timeout (seconds) the client is constructed with.
MinTimeout == 1
MaxTimeout == 11
\* Largest self.timeout of a client whose statement polls are followed.
MaxStatementTimeout == 5
\* Most delete_session calls a caller makes after one create_session.
MaxDeletes == 2
\* Longest time (seconds) one HTTP exchange takes.
MaxExchangeSecs == 1

\* ------------------------------------------------------- program constants
\* def _send_request(..., max_retries=3)
DefaultMaxRetries == 3
\* wait_time = 2 ** retry_count
BackoffBase == 2
\* def wait_for_session_ready(self, poll_interval=5)
SessionPollInterval == 5

\* def get_statement_result(self, statement_location, poll_interval=2)
StatementPollInterval == 2

None == "None"

\* response.status_code in [429, 500, 502, 503, 504]
RetryableStatuses == {429, 500, 502, 503, 504}

\* The status codes the remote service is taken to answer with: two 2xx, a
\* 3xx and a 4xx outside the retryable list, and the whole retryable list.
Statuses == {200, 201, 304, 404} \cup RetryableStatuses

\* HTTP methods a call is made with; PUT stands for any method the
\* dispatcher does not support.
Methods == {"GET", "POST", "DELETE", "PUT"}
SupportedMethods == {"GET", "POST", "DELETE"}

\* Values of the response's location header for a created session.
Locations == {"/sessions/1", "/sessions/2"}

\* Values of the JSON field state of a session; "unknown" is the default
\* the code substitutes when the field is absent, "notjson" a body that
\* response.json() cannot turn into an object.
SessionStates == {"starting", "idle", "busy", "error", "dead", "killed"}
BodyStates == SessionStates \cup {"unknown", "notjson"}

\* Value of the location header of a submitted statement.
StatementLocations == {"/sessions/1/statements/0"}

\* Values of the JSON field state of a statement, with "unknown" and
\* "notjson" as for a session.
StatementStates == {"waiting", "running", "available", "error", "cancelled"}
StatementBodyStates == StatementStates \cup {"unknown", "notjson"}

\* Values of the result payload of a statement record; None when absent.
StatementResults == {None, "2"}

VARIABLES
    session_url,   \* self.session_url
    timeout,       \* self.timeout
    \* ---- the running (or last) _send_request call
    spc,           \* "idle" | "loop" (at the while test) | "done"
    method,        \* its method
    path,          \* its path
    max_retries,   \* its max_retries
    retry_count,   \* its retry_count
    sresult,       \* what it returned or raised
    outcomes,      \* history: the outcome of each exchange of the call
    signs,         \* history: number of signer.add_auth calls of the call
    sleeps,        \* history: the time.sleep calls of the call
    \* ---- the running (or last) public operation
    op,            \* "none" | "send" | "create" | "wait"
    opc,           \* "idle" | "run" | "done"
    oresult,       \* what it returned or raised
    oend,          \* history: the exit it left by
    elapsed,       \* time.time() - start_time of the polling operation
    observed,      \* history: session_state read by each poll of the operation
    polls,         \* history: number of _send_request calls of the operation
    oarg,          \* statement_location, the argument of get_statement_result
    \* ---- the demo flow main()
    mpc,           \* the statement of main() that runs next; "caller" for a
                   \* caller that is followed, "none" for one that is not
    mcreated,      \* history: a create_session call of the caller has succeeded
    mdel           \* history: the delete_session calls of the caller since
                   \* its last create_session call, as they ended

sendVars == <<spc, method, path, max_retries, retry_count, sresult,
              outcomes, signs, sleeps>>
mainVars == <<mpc, mcreated, mdel>>
opVars == <<op, opc, oresult, oend, observed, polls, oarg, mpc, mcreated,
            mdel>>
vars == <<session_url, timeout, spc, method, path, max_retries, retry_count,
          sresult, outcomes, signs, sleeps, op, opc, oresult, oend, elapsed,
          observed, polls, oarg, mpc, mcreated, mdel>>

\* ---------------------------------------------------------------- values
Pending == [kind |-> "pending", status |-> 0, location |-> None,
            state |-> None, result |-> None, exc |-> None]
\* return response
Response(st, loc, body) == [kind |-> "response", status |-> st,
                            location |-> loc, state |-> body,
                            result |-> None, exc |-> None]
\* return None
ReturnNone == [kind |-> "none", status |-> 0, location |-> None,
               state |-> None, result |-> None, exc |-> None]
\* raise
Raised(e) == [kind |-> "raise", status |-> 0, location |-> None,
              state |-> None, result |-> None, exc |-> e]

\* What a public operation returned or raised.
\* data is the statement record when the value returned is one.
NoData == [state |-> None, result |-> None]
OPending == [kind |-> "pending", value |-> None, data |-> NoData]
OReturn(v) == [kind |-> "return", value |-> v, data |-> NoData]
ORaised(e) == [kind |-> "raise", value |-> e, data |-> NoData]

StatusOutcome(st) == [kind |-> "status", status |-> st]
NetFailOutcome == [kind |-> "netfail", status |-> 0]

\* The header and body fields a response carries, by the request it answers:
\* a POST answer may carry a location header, a GET answer a state field.
LocationsFor(m) == IF m = "POST" THEN Locations \cup {None} ELSE {None}
StatesFor(m) == IF m = "GET" THEN BodyStates ELSE {"unknown"}

\* statements_url = f"{self.session_url}/statements"
StatementsUrl(loc) == loc \o "/statements"

\* The same by the path too: the answer to a POST under a session names a
\* statement, the answer to a GET of a statement carries the statement's
\* state and result.
HeaderFor(m, p) ==
    IF m = "POST" /\ p # "/sessions"
    THEN StatementLocations \cup {None}
    ELSE LocationsFor(m)
BodyFor(m, p) ==
    IF m = "GET" /\ p \in StatementLocations
    THEN StatementBodyStates
    ELSE StatesFor(m)
ResultFor(m, p, body) ==
    IF m = "GET" /\ p \in StatementLocations /\ body # "notjson"
    THEN StatementResults
    ELSE {None}

\* ------------------------------------------------- _send_request, pieces
\* Mutant: one attempt more than max_retries.
MayAttempt_Inclusive(rc, mr) == rc <= mr

\* while retry_count < max_retries
MayAttempt(rc, mr) == rc < mr

\* if 200 <= response.status_code < 300
IsSuccess(st) == 200 <= st /\ st < 300

\* Mutant: every status from 400 up is retried.
IsRetryable_AllErrors(st) == st >= 400

\* if response.status_code in [429, 500, 502, 503, 504]
IsRetryable(st) == st \in RetryableStatuses

\* Mutant: linear instead of exponential backoff.
WaitTime_Linear(rc) == BackoffBase * rc

\* wait_time = 2 ** retry_count
WaitTime(rc) == BackoffBase ^ rc

\* Mutant: the except branch sleeps once more instead of re-raising.
AttemptsRemain_OffByOne(rc, mr) == rc <= mr

\* except branch: if retry_count < max_retries (sleep) else (raise)
AttemptsRemain(rc, mr) == rc < mr

\* time.sleep(secs) and the time an exchange takes move the clock the
\* polling loops read; outside a polling loop nobody reads it.
Tick(e, secs) == IF op \in {"wait", "get"} /\ opc = "run" THEN e + secs ELSE e

\* The entry of _send_request: retry_count = 0
StartSend(m, p, mr) ==
    /\ spc' = "loop"
    /\ method' = m
    /\ path' = p
    /\ max_retries' = mr
    /\ retry_count' = 0
    /\ sresult' = Pending
    /\ outcomes' = <<>>
    /\ signs' = 0
    /\ sleeps' = <<>>

\* No call of _send_request is running: the operation has made none yet, or
\* has taken the result of the last one and dropped its frame.
NoSend ==
    /\ spc' = "idle"
    /\ method' = "GET"
    /\ path' = "/sessions"
    /\ max_retries' = DefaultMaxRetries
    /\ retry_count' = 0
    /\ sresult' = Pending
    /\ outcomes' = <<>>
    /\ signs' = 0
    /\ sleeps' = <<>>

\* One iteration of the loop up to the exchange: the request is built and
\* signed, and the method is dispatched on.
Iteration ==
    /\ spc = "loop"
    /\ MayAttempt(retry_count, max_retries)
    /\ signs' = signs + 1

\* raise ValueError: not a RequestException, so it leaves the call.
SendUnsupported ==
    /\ Iteration
    /\ method \notin SupportedMethods
    /\ spc' = "done"
    /\ sresult' = Raised("ValueError")
    /\ UNCHANGED <<session_url, timeout, method, path, max_retries,
                   retry_count, outcomes, sleeps, elapsed>>
    /\ UNCHANGED opVars

\* 2xx: return response
SendSuccess ==
    /\ Iteration
    /\ method \in SupportedMethods
    /\ \E st \in Statuses, loc \in HeaderFor(method, path),
          body \in BodyFor(method, path), d \in 0..MaxExchangeSecs :
        /\ IsSuccess(st)
        /\ outcomes' = Append(outcomes, StatusOutcome(st))
        /\ \E res \in ResultFor(method, path, body) :
              sresult' = [Response(st, loc, body) EXCEPT !.result = res]
        /\ elapsed' = Tick(elapsed, d)
    /\ spc' = "done"
    /\ UNCHANGED <<session_url, timeout, method, path, max_retries,
                   retry_count, sleeps>>
    /\ UNCHANGED opVars

\* a status of the retryable list: count, sleep, continue
SendRetryable ==
    /\ Iteration
    /\ method \in SupportedMethods
    /\ \E st \in Statuses, d \in 0..MaxExchangeSecs :
        /\ ~IsSuccess(st)
        /\ IsRetryable(st)
        /\ outcomes' = Append(outcomes, StatusOutcome(st))
        /\ retry_count' = retry_count + 1
        /\ sleeps' = Append(sleeps, [after |-> Len(outcomes) + 1,
                                     secs |-> WaitTime(retry_count + 1)])
        /\ elapsed' = Tick(elapsed, d + WaitTime(retry_count + 1))
    /\ UNCHANGED <<session_url, timeout, spc, method, path, max_retries,
                   sresult>>
    /\ UNCHANGED opVars

\* any other status: return response
SendOther ==
    /\ Iteration
    /\ method \in SupportedMethods
    /\ \E st \in Statuses, loc \in HeaderFor(method, path),
          body \in BodyFor(method, path), d \in 0..MaxExchangeSecs :
        /\ ~IsSuccess(st)
        /\ ~IsRetryable(st)
        /\ outcomes' = Append(outcomes, StatusOutcome(st))
        /\ \E res \in ResultFor(method, path, body) :
              sresult' = [Response(st, loc, body) EXCEPT !.result = res]
        /\ elapsed' = Tick(elapsed, d)
    /\ spc' = "done"
    /\ UNCHANGED <<session_url, timeout, method, path, max_retries,
                   retry_count, sleeps>>
    /\ UNCHANGED opVars

\* requests.exceptions.RequestException: count, then sleep or re-raise
SendNetFail ==
    /\ Iteration
    /\ method \in SupportedMethods
    /\ \E d \in 0..MaxExchangeSecs :
        /\ outcomes' = Append(outcomes, NetFailOutcome)
        /\ retry_count' = retry_count + 1
        /\ IF AttemptsRemain(retry_count + 1, max_retries)
           THEN /\ sleeps' = Append(sleeps, [after |-> Len(outcomes) + 1,
                                             secs |-> WaitTime(retry_count + 1)])
                /\ elapsed' = Tick(elapsed, d + WaitTime(retry_count + 1))
                /\ UNCHANGED <<spc, sresult>>
           ELSE /\ spc' = "done"
                /\ sresult' = Raised("RequestException")
                /\ elapsed' = Tick(elapsed, d)
                /\ UNCHANGED sleeps
    /\ UNCHANGED <<session_url, timeout, method, path, max_retries>>
    /\ UNCHANGED opVars

\* the while test fails: return None
SendExhausted ==
    /\ spc = "loop"
    /\ ~MayAttempt(retry_count, max_retries)
    /\ spc' = "done"
    /\ sresult' = ReturnNone
    /\ UNCHANGED <<session_url, timeout, method, path, max_retries,
                   retry_count, outcomes, signs, sleeps, elapsed>>
    /\ UNCHANGED opVars

\* ------------------------------------------- _send_request called alone
CanCall == opc \in {"idle", "done"} /\ spc \in {"idle", "done"}

DirectSend ==
    /\ UNCHANGED mainVars
    /\ UNCHANGED oarg
    /\ CanCall
    /\ \E m \in Methods, mr \in 0..MaxRetriesBound :
        StartSend(m, "/sessions", mr)
    /\ op' = "send"
    /\ opc' = "run"
    /\ oresult' = OPending
    /\ oend' = "running"
    /\ observed' = <<>>
    /\ polls' = 1
    /\ elapsed' = 0
    /\ UNCHANGED <<session_url, timeout>>

DirectReturn ==
    /\ UNCHANGED mainVars
    /\ UNCHANGED oarg
    /\ op = "send"
    /\ opc = "run"
    /\ spc = "done"
    /\ opc' = "done"
    /\ oresult' = IF sresult.kind = "raise" THEN ORaised(sresult.exc)
                  ELSE IF sresult.kind = "none" THEN OReturn(None)
                  ELSE OReturn("response")
    /\ oend' = "returned"
    /\ UNCHANGED <<session_url, timeout, elapsed, op, observed, polls>>
    /\ UNCHANGED sendVars

\* ------------------------------------------------------ public operations
\* `not response` is true of None and, requests.Response being falsy when
\* its status is an error status, of every response with status >= 400.
Truthy(r) == r.kind = "response" /\ r.status < 400

\* create_session: response = self._send_request('POST', "/sessions", data)
CreateCall ==
    /\ UNCHANGED mainVars
    /\ UNCHANGED oarg
    /\ CanCall
    /\ StartSend("POST", "/sessions", DefaultMaxRetries)
    /\ op' = "create"
    /\ opc' = "run"
    /\ oresult' = OPending
    /\ oend' = "running"
    /\ observed' = <<>>
    /\ polls' = 1
    /\ elapsed' = 0
    /\ UNCHANGED <<session_url, timeout>>

\* Mutant: only the error statuses are refused.
CreateFailed_ErrorsOnly(r) == ~Truthy(r) \/ r.status >= 400

\* create_session: if not response or response.status_code >= 300
CreateFailed(r) == ~Truthy(r) \/ r.status >= 300

\* create_session, from the return of _send_request on
CreateHandle ==
    /\ UNCHANGED mainVars
    /\ UNCHANGED oarg
    /\ op = "create"
    /\ opc = "run"
    /\ spc = "done"
    /\ NoSend
    /\ opc' = "done"
    /\ IF sresult.kind = "raise"
       THEN /\ oresult' = ORaised(sresult.exc)
            /\ oend' = "raised"
            /\ UNCHANGED session_url
       ELSE IF CreateFailed(sresult)
       THEN /\ oresult' = ORaised("Exception")
            /\ oend' = "failed"
            /\ UNCHANGED session_url
       ELSE /\ session_url' = sresult.location
            /\ IF sresult.location = None
               THEN oresult' = ORaised("Exception") /\ oend' = "nolocation"
               ELSE oresult' = OReturn("json") /\ oend' = "created"
    /\ UNCHANGED <<timeout, op, elapsed, observed, polls>>

\* Mutant: the test for an active session is left out.
HasSession_Always(u) == TRUE

\* wait_for_session_ready, submit_statement, delete_session:
\* if not self.session_url
HasSession(u) == u # None

\* wait_for_session_ready: if not self.session_url: raise
WaitNoSession ==
    /\ UNCHANGED mainVars
    /\ UNCHANGED oarg
    /\ CanCall
    /\ ~HasSession(session_url)
    /\ op' = "wait"
    /\ opc' = "done"
    /\ oresult' = ORaised("Exception")
    /\ oend' = "nosession"
    /\ observed' = <<>>
    /\ polls' = 0
    /\ elapsed' = 0
    /\ NoSend
    /\ UNCHANGED <<session_url, timeout>>

\* wait_for_session_ready: start_time = time.time()
WaitCall ==
    /\ UNCHANGED mainVars
    /\ UNCHANGED oarg
    /\ CanCall
    /\ HasSession(session_url)
    /\ op' = "wait"
    /\ opc' = "run"
    /\ oresult' = OPending
    /\ oend' = "running"
    /\ observed' = <<>>
    /\ polls' = 0
    /\ elapsed' = 0
    /\ NoSend
    /\ UNCHANGED <<session_url, timeout>>

\* while time.time() - start_time < self.timeout
WithinTimeout(e, t) == e < t

AtWaitLoopTest == op = "wait" /\ opc = "run" /\ spc = "idle"

\* the loop test holds: response = self._send_request('GET', self.session_url)
WaitPoll ==
    /\ UNCHANGED mainVars
    /\ UNCHANGED oarg
    /\ AtWaitLoopTest
    /\ WithinTimeout(elapsed, timeout)
    /\ StartSend("GET", session_url, DefaultMaxRetries)
    /\ polls' = polls + 1
    /\ UNCHANGED <<session_url, timeout, op, opc, oresult, oend, elapsed,
                   observed>>

\* Mutant: the timeout is raised as an error of its own.
WaitTimeoutResult_Raises == ORaised("TimeoutError")

\* after the loop: return False
WaitTimeoutResult == OReturn("False")

\* the loop test fails: log the timeout, return False
WaitTimeout ==
    /\ UNCHANGED mainVars
    /\ UNCHANGED oarg
    /\ AtWaitLoopTest
    /\ ~WithinTimeout(elapsed, timeout)
    /\ opc' = "done"
    /\ oresult' = WaitTimeoutResult
    /\ oend' = "timeout"
    /\ UNCHANGED <<session_url, timeout, op, elapsed, observed, polls>>
    /\ UNCHANGED sendVars

WaitSendReturned == op = "wait" /\ opc = "run" /\ spc = "done"

\* _send_request raised: wait_for_session_ready has no handler, it raises too
WaitRaised ==
    /\ UNCHANGED mainVars
    /\ UNCHANGED oarg
    /\ WaitSendReturned
    /\ sresult.kind = "raise"
    /\ NoSend
    /\ opc' = "done"
    /\ oresult' = ORaised(sresult.exc)
    /\ oend' = "raised"
    /\ UNCHANGED <<session_url, timeout, op, elapsed, observed, polls>>

\* if not response: time.sleep(poll_interval); continue
WaitMissed ==
    /\ UNCHANGED mainVars
    /\ UNCHANGED oarg
    /\ WaitSendReturned
    /\ sresult.kind # "raise"
    /\ ~Truthy(sresult)
    /\ NoSend
    /\ elapsed' = elapsed + SessionPollInterval
    /\ UNCHANGED <<session_url, timeout, op, opc, oresult, oend, observed,
                   polls>>

\* response.json() fails on the body: the error leaves the operation
WaitBadBody ==
    /\ UNCHANGED mainVars
    /\ UNCHANGED oarg
    /\ WaitSendReturned
    /\ Truthy(sresult)
    /\ sresult.state = "notjson"
    /\ NoSend
    /\ opc' = "done"
    /\ oresult' = ORaised("JSONDecodeError")
    /\ oend' = "raised"
    /\ UNCHANGED <<session_url, timeout, op, elapsed, observed, polls>>

\* Mutant: the ready state is looked for under another name.
IsReadyState_Ready(st) == st = "ready"

\* if session_state == 'idle'
IsReadyState(st) == st = "idle"

\* Mutant: a killed session is not taken for a failed one.
IsFailedState_NoKilled(st) == st \in {"error", "dead"}

\* elif session_state in ['error', 'dead', 'killed']
IsFailedState(st) == st \in {"error", "dead", "killed"}

\* session ready: return True
WaitReadyResult == OReturn("True")

\* session in an error state: return False
WaitFailedResult == OReturn("False")

\* session_state = response.json().get('state', 'unknown') and the branch on it
WaitObserve ==
    /\ UNCHANGED mainVars
    /\ UNCHANGED oarg
    /\ WaitSendReturned
    /\ Truthy(sresult)
    /\ sresult.state # "notjson"
    /\ observed' = Append(observed, sresult.state)
    /\ NoSend
    /\ IF IsReadyState(sresult.state)
       THEN /\ opc' = "done"
            /\ oresult' = WaitReadyResult
            /\ oend' = "ready"
            /\ UNCHANGED elapsed
       ELSE IF IsFailedState(sresult.state)
       THEN /\ opc' = "done"
            /\ oresult' = WaitFailedResult
            /\ oend' = "failed"
            /\ UNCHANGED elapsed
       ELSE /\ elapsed' = elapsed + SessionPollInterval
            /\ UNCHANGED <<opc, oresult, oend>>
    /\ UNCHANGED <<session_url, timeout, op, polls>>

\* ------------------------------------------------------- list_sessions
\* list_sessions: response = self._send_request('GET', "/sessions")
ListCall ==
    /\ CanCall
    /\ StartSend("GET", "/sessions", DefaultMaxRetries)
    /\ op' = "list"
    /\ opc' = "run"
    /\ oresult' = OPending
    /\ oend' = "running"
    /\ observed' = <<>>
    /\ polls' = 1
    /\ elapsed' = 0
    /\ UNCHANGED <<session_url, timeout, oarg>>
    /\ UNCHANGED mainVars

\* list_sessions: if not response or response.status_code >= 300
ListFailed(r) == ~Truthy(r) \/ r.status >= 300

\* list_sessions, from the return of _send_request on
ListHandle ==
    /\ op = "list"
    /\ opc = "run"
    /\ spc = "done"
    /\ NoSend
    /\ opc' = "done"
    /\ IF sresult.kind = "raise"
       THEN oresult' = ORaised(sresult.exc) /\ oend' = "raised"
       ELSE IF ListFailed(sresult)
       THEN oresult' = OReturn(None) /\ oend' = "failed"
       ELSE IF sresult.state = "notjson"
       THEN oresult' = ORaised("JSONDecodeError") /\ oend' = "raised"
       ELSE oresult' = OReturn("json") /\ oend' = "listed"
    /\ UNCHANGED <<session_url, timeout, op, elapsed, observed, polls, oarg>>
    /\ UNCHANGED mainVars

\* ---------------------------------------------------- submit_statement
\* submit_statement without an active session: raise
SubmitNoSession ==
    /\ CanCall
    /\ ~HasSession(session_url)
    /\ op' = "submit"
    /\ opc' = "done"
    /\ oresult' = ORaised("Exception")
    /\ oend' = "nosession"
    /\ observed' = <<>>
    /\ polls' = 0
    /\ elapsed' = 0
    /\ NoSend
    /\ UNCHANGED <<session_url, timeout, oarg>>
    /\ UNCHANGED mainVars

\* submit_statement: response = self._send_request('POST', statements_url, data)
SubmitCall ==
    /\ CanCall
    /\ HasSession(session_url)
    /\ StartSend("POST", StatementsUrl(session_url), DefaultMaxRetries)
    /\ op' = "submit"
    /\ opc' = "run"
    /\ oresult' = OPending
    /\ oend' = "running"
    /\ observed' = <<>>
    /\ polls' = 1
    /\ elapsed' = 0
    /\ UNCHANGED <<session_url, timeout, oarg>>
    /\ UNCHANGED mainVars

\* submit_statement: if not response or response.status_code >= 300
SubmitFailed(r) == ~Truthy(r) \/ r.status >= 300

\* submit_statement, from the return of _send_request on; the value
\* returned is the pair whose first member is statement_location
SubmitHandle ==
    /\ op = "submit"
    /\ opc = "run"
    /\ spc = "done"
    /\ NoSend
    /\ opc' = "done"
    /\ IF sresult.kind = "raise"
       THEN oresult' = ORaised(sresult.exc) /\ oend' = "raised"
       ELSE IF SubmitFailed(sresult)
       THEN oresult' = ORaised("Exception") /\ oend' = "failed"
       ELSE IF sresult.location = None
       THEN oresult' = ORaised("Exception") /\ oend' = "nolocation"
       ELSE oresult' = OReturn(sresult.location) /\ oend' = "submitted"
    /\ UNCHANGED <<session_url, timeout, op, elapsed, observed, polls, oarg>>
    /\ UNCHANGED mainVars

\* ------------------------------------------------------ delete_session
\* delete_session without an active session: log a warning, return False
DeleteNoSession ==
    /\ CanCall
    /\ ~HasSession(session_url)
    /\ op' = "delete"
    /\ opc' = "done"
    /\ oresult' = OReturn("False")
    /\ oend' = "nosession"
    /\ observed' = <<>>
    /\ polls' = 0
    /\ elapsed' = 0
    /\ NoSend
    /\ UNCHANGED <<session_url, timeout, oarg>>
    /\ UNCHANGED mainVars

\* delete_session: response = self._send_request('DELETE', self.session_url)
DeleteCall ==
    /\ CanCall
    /\ HasSession(session_url)
    /\ StartSend("DELETE", session_url, DefaultMaxRetries)
    /\ op' = "delete"
    /\ opc' = "run"
    /\ oresult' = OPending
    /\ oend' = "running"
    /\ observed' = <<>>
    /\ polls' = 1
    /\ elapsed' = 0
    /\ UNCHANGED <<session_url, timeout, oarg>>
    /\ UNCHANGED mainVars

\* Mutant: only a missing response counts as a failed delete.
DeleteFailed_NoneOnly(r) == r.kind # "response"

\* delete_session: if not response or response.status_code >= 300
DeleteFailed(r) == ~Truthy(r) \/ r.status >= 300

\* Mutant: the handle is left in place after a successful delete.
DeletedHandle_Kept(u) == u

\* delete_session: self.session_url = None
DeletedHandle(u) == None

\* delete_session, from the return of _send_request on
DeleteHandle ==
    /\ op = "delete"
    /\ opc = "run"
    /\ spc = "done"
    /\ NoSend
    /\ opc' = "done"
    /\ IF sresult.kind = "raise"
       THEN /\ oresult' = ORaised(sresult.exc)
            /\ oend' = "raised"
            /\ UNCHANGED session_url
       ELSE IF DeleteFailed(sresult)
       THEN /\ oresult' = OReturn("False")
            /\ oend' = "failed"
            /\ UNCHANGED session_url
       ELSE /\ oresult' = OReturn("True")
            /\ oend' = "deleted"
            /\ session_url' = DeletedHandle(session_url)
    /\ UNCHANGED <<timeout, op, elapsed, observed, polls, oarg>>
    /\ UNCHANGED mainVars

\* ------------------------------------------------- get_statement_result
\* get_statement_result(statement_location): start_time = time.time()
GetCall ==
    /\ CanCall
    /\ \E loc \in StatementLocations : oarg' = loc
    /\ op' = "get"
    /\ opc' = "run"
    /\ oresult' = OPending
    /\ oend' = "running"
    /\ observed' = <<>>
    /\ polls' = 0
    /\ elapsed' = 0
    /\ NoSend
    /\ UNCHANGED <<session_url, timeout>>
    /\ UNCHANGED mainVars

AtGetLoopTest == op = "get" /\ opc = "run" /\ spc = "idle"

\* the loop test holds: response = self._send_request('GET', statement_location)
GetPoll ==
    /\ AtGetLoopTest
    /\ WithinTimeout(elapsed, timeout)
    /\ StartSend("GET", oarg, DefaultMaxRetries)
    /\ polls' = polls + 1
    /\ UNCHANGED <<session_url, timeout, op, opc, oresult, oend, elapsed,
                   observed, oarg>>
    /\ UNCHANGED mainVars

\* after the loop: return None
StatementTimeoutResult == OReturn(None)

\* the loop test fails: log the timeout, return None
GetTimeout ==
    /\ AtGetLoopTest
    /\ ~WithinTimeout(elapsed, timeout)
    /\ opc' = "done"
    /\ oresult' = StatementTimeoutResult
    /\ oend' = "timeout"
    /\ UNCHANGED <<session_url, timeout, op, elapsed, observed, polls, oarg>>
    /\ UNCHANGED mainVars
    /\ UNCHANGED sendVars

GetSendReturned == op = "get" /\ opc = "run" /\ spc = "done"

\* _send_request raised: get_statement_result has no handler, it raises too
GetRaised ==
    /\ GetSendReturned
    /\ sresult.kind = "raise"
    /\ NoSend
    /\ opc' = "done"
    /\ oresult' = ORaised(sresult.exc)
    /\ oend' = "raised"
    /\ UNCHANGED <<session_url, timeout, op, elapsed, observed, polls, oarg>>
    /\ UNCHANGED mainVars

\* if not response: time.sleep(poll_interval); continue
GetMissed ==
    /\ GetSendReturned
    /\ sresult.kind # "raise"
    /\ ~Truthy(sresult)
    /\ NoSend
    /\ elapsed' = elapsed + StatementPollInterval
    /\ UNCHANGED <<session_url, timeout, op, opc, oresult, oend, observed,
                   polls, oarg>>
    /\ UNCHANGED mainVars

\* response.json() fails on the body, or gives no object to read 'state'
\* from: the error leaves the operation
GetBadBody ==
    /\ GetSendReturned
    /\ Truthy(sresult)
    /\ sresult.state = "notjson"
    /\ NoSend
    /\ opc' = "done"
    /\ oresult' = ORaised("JSONDecodeError")
    /\ oend' = "raised"
    /\ UNCHANGED <<session_url, timeout, op, elapsed, observed, polls, oarg>>
    /\ UNCHANGED mainVars

\* statement_data = response.json()
StatementData(r) == [state |-> r.state, result |-> r.result]

\* Mutant: a finished statement is looked for under another name.
IsAvailableState_Completed(st) == st = "completed"

\* if statement_state == 'available'
IsAvailableState(st) == st = "available"

\* elif statement_state in ['error', 'cancelled']
IsStatementFailedState(st) == st \in {"error", "cancelled"}

\* Mutant: the state alone is returned, the payload dropped.
StatementReturn_StateOnly(data) ==
    [kind |-> "return", value |-> "statement_data",
     data |-> [data EXCEPT !.result = None]]

\* return statement_data
StatementReturn(data) ==
    [kind |-> "return", value |-> "statement_data", data |-> data]

\* Mutant: a failed statement gives None, like the timeout.
StatementFailedReturn_None(data) == OReturn(None)

\* statement failed: return statement_data
StatementFailedReturn(data) == StatementReturn(data)

\* statement_state = statement_data.get('state', 'unknown') and the branch on it
GetObserve ==
    /\ GetSendReturned
    /\ Truthy(sresult)
    /\ sresult.state # "notjson"
    /\ observed' = Append(observed, StatementData(sresult))
    /\ NoSend
    /\ IF IsAvailableState(sresult.state)
       THEN /\ opc' = "done"
            /\ oresult' = StatementReturn(StatementData(sresult))
            /\ oend' = "available"
            /\ UNCHANGED elapsed
       ELSE IF IsStatementFailedState(sresult.state)
       THEN /\ opc' = "done"
            /\ oresult' = StatementFailedReturn(StatementData(sresult))
            /\ oend' = "failed"
            /\ UNCHANGED elapsed
       ELSE /\ elapsed' = elapsed + StatementPollInterval
            /\ UNCHANGED <<opc, oresult, oend>>
    /\ UNCHANGED <<session_url, timeout, op, polls, oarg>>
    /\ UNCHANGED mainVars

\* __init__: the client as constructed, whatever its timeout
Constructed ==
    /\ session_url = None
    /\ spc = "idle"
    /\ method = "GET"
    /\ path = "/sessions"
    /\ max_retries = DefaultMaxRetries
    /\ retry_count = 0
    /\ sresult = Pending
    /\ outcomes = <<>>
    /\ signs = 0
    /\ sleeps = <<>>
    /\ op = "none"
    /\ opc = "idle"
    /\ oresult = OPending
    /\ oend = "none"
    /\ elapsed = 0
    /\ observed = <<>>
    /\ polls = 0
    /\ oarg = None
    /\ mcreated = FALSE
    /\ mdel = <<>>

Init ==
    /\ Constructed
    /\ timeout \in {MinTimeout, MaxTimeout}
    /\ mpc = "none"

\* A caller that is followed, of a client with the shortest timeout.
InitSession ==
    /\ Constructed
    /\ timeout = MinTimeout
    /\ mpc = "caller"

\* main() about to call create_session. main constructs its client with the
\* default timeout of 300 seconds; the model follows it with the shortest
\* timeout, which leaves every ending of every operation possible.
InitMain ==
    /\ Constructed
    /\ timeout = MinTimeout
    /\ mpc = "create"

\* The client whose statement polls are followed: a timeout of a few polls.
InitStatement ==
    /\ Constructed
    /\ timeout \in {MinTimeout, MaxStatementTimeout}
    /\ mpc = "none"

NextSend ==
    \/ DirectSend
    \/ SendUnsupported
    \/ SendSuccess
    \/ SendRetryable
    \/ SendOther
    \/ SendNetFail
    \/ SendExhausted
    \/ DirectReturn

\* The dispatcher alone, called with every method and max_retries.
SpecSend == Init /\ [][NextSend]_vars

\* A step of the loop of _send_request: the exchange under way comes to an
\* outcome, a sleep ends, and the one thread of the call goes on.
SendStep ==
    \/ SendUnsupported
    \/ SendSuccess
    \/ SendRetryable
    \/ SendOther
    \/ SendNetFail
    \/ SendExhausted

\* The dispatcher alone, its loop never stopping for ever.
SpecSendFair == SpecSend /\ WF_vars(SendStep)

Next ==
    \/ CreateCall
    \/ CreateHandle
    \/ WaitNoSession
    \/ WaitCall
    \/ WaitPoll
    \/ WaitTimeout
    \/ WaitRaised
    \/ WaitMissed
    \/ WaitBadBody
    \/ WaitObserve
    \/ ListCall
    \/ ListHandle
    \/ SubmitNoSession
    \/ SubmitCall
    \/ SubmitHandle
    \/ DeleteNoSession
    \/ DeleteCall
    \/ DeleteHandle
    \/ SendSuccess
    \/ SendRetryable
    \/ SendOther
    \/ SendNetFail
    \/ SendExhausted

\* The client, its public operations called in any order, one at a time.
Spec == Init /\ [][Next]_vars

NextStatement ==
    \/ GetCall
    \/ GetPoll
    \/ GetTimeout
    \/ GetRaised
    \/ GetMissed
    \/ GetBadBody
    \/ GetObserve
    \/ SendSuccess
    \/ SendRetryable
    \/ SendOther
    \/ SendNetFail
    \/ SendExhausted

\* get_statement_result alone, called again and again.
SpecStatement == InitStatement /\ [][NextStatement]_vars

\* ---------------------------------------------------- a caller, followed
\* How a delete_session call ended: its exit, the value it returned or
\* raised, the number of requests it made and the handle it left.
DeleteRecord == [end |-> oend, result |-> oresult.value, polls |-> polls,
                 handle |-> session_url]

\* The history after the operation that has just returned.
DeletesAfterReturn ==
    IF op = "delete" THEN Append(mdel, DeleteRecord)
    ELSE IF op = "create" THEN <<>>
    ELSE mdel
CreatedAfterReturn == mcreated \/ (op = "create" /\ oend = "created")

\* The caller is between two calls.
CallerReady == mpc = "caller" /\ opc = "idle"

\* The operation has returned or raised to the caller.
CallerReturn ==
    /\ mpc = "caller"
    /\ opc = "done"
    /\ opc' = "idle"
    /\ mdel' = DeletesAfterReturn
    /\ mcreated' = CreatedAfterReturn
    /\ UNCHANGED <<session_url, timeout, op, oresult, oend, elapsed, observed,
                   polls, oarg, mpc>>
    /\ UNCHANGED sendVars

NextSession ==
    \/ CallerReady /\ CreateCall
    \/ CallerReady /\ WaitNoSession
    \/ CallerReady /\ WaitCall
    \/ CallerReady /\ ListCall
    \/ CallerReady /\ SubmitNoSession
    \/ CallerReady /\ SubmitCall
    \/ CallerReady /\ Len(mdel) < MaxDeletes /\ DeleteNoSession
    \/ CallerReady /\ Len(mdel) < MaxDeletes /\ DeleteCall
    \/ CallerReturn
    \/ CreateHandle
    \/ WaitPoll
    \/ WaitTimeout
    \/ WaitRaised
    \/ WaitMissed
    \/ WaitBadBody
    \/ WaitObserve
    \/ ListHandle
    \/ SubmitHandle
    \/ DeleteHandle
    \/ SendSuccess
    \/ SendRetryable
    \/ SendOther
    \/ SendNetFail
    \/ SendExhausted

\* The session operations called in any order by a caller whose
\* delete_session calls are recorded.
SpecSession == InitSession /\ [][NextSession]_vars

\* ------------------------------------------------------------------ main
\* Mutant: the finally block never deletes.
FinallyDeletes_Never(u) == FALSE

\* main, finally: if 'client' in locals() and client.session_url
FinallyDeletes(u) == HasSession(u)

\* The statement of main() that runs after the operation called at pc has
\* ended with r: an exception goes to the finally block through the except
\* clause; a session that is not ready goes to the delete_session call before
\* the return.
MainAfter(pc, r) ==
    IF pc \in {"notready", "finally"} THEN
        IF pc = "notready" THEN "finally" ELSE "end"
    ELSE IF r.kind = "raise" THEN "finally"
    ELSE IF pc = "create" THEN "wait"
    ELSE IF pc = "wait" THEN (IF r.value = "True" THEN "list" ELSE "notready")
    ELSE IF pc = "list" THEN "submit1"
    ELSE IF pc = "submit1" THEN "get1"
    ELSE IF pc = "get1" THEN "submit2"
    ELSE IF pc = "submit2" THEN "get2"
    ELSE "finally"

\* main() is at the call written at pc.
MainAt(pc) == mpc = pc /\ opc = "idle"

\* result = client.get_statement_result(statement_location), with the
\* location the submit_statement before it returned
MainGet == GetCall /\ oarg' = oresult.value

\* The operation main() called has returned or raised.
MainAdvance ==
    /\ mpc \notin {"none", "caller", "end"}
    /\ opc = "done"
    /\ opc' = "idle"
    /\ mpc' = MainAfter(mpc, oresult)
    /\ mdel' = DeletesAfterReturn
    /\ mcreated' = CreatedAfterReturn
    /\ UNCHANGED <<session_url, timeout, op, oresult, oend, elapsed, observed,
                   polls, oarg>>
    /\ UNCHANGED sendVars

\* main, finally, with no session left to delete
MainFinallySkip ==
    /\ MainAt("finally")
    /\ ~FinallyDeletes(session_url)
    /\ mpc' = "end"
    /\ UNCHANGED <<session_url, timeout, op, opc, oresult, oend, elapsed,
                   observed, polls, oarg, mcreated, mdel>>
    /\ UNCHANGED sendVars

\* main() from its first call on. Once create_session has returned the
\* handle is set at every later call of the try block, so that the
\* operations are entered past their test for an active session.
NextMain ==
    \/ MainAt("create") /\ CreateCall
    \/ MainAt("wait") /\ WaitCall
    \/ MainAt("notready") /\ DeleteCall
    \/ MainAt("list") /\ ListCall
    \/ MainAt("submit1") /\ SubmitCall
    \/ MainAt("get1") /\ MainGet
    \/ MainAt("submit2") /\ SubmitCall
    \/ MainAt("get2") /\ MainGet
    \/ MainAt("finally") /\ FinallyDeletes(session_url) /\ DeleteCall
    \/ MainFinallySkip
    \/ MainAdvance
    \/ CreateHandle
    \/ WaitPoll
    \/ WaitTimeout
    \/ WaitRaised
    \/ WaitMissed
    \/ WaitBadBody
    \/ WaitObserve
    \/ ListHandle
    \/ SubmitHandle
    \/ GetPoll
    \/ GetTimeout
    \/ GetRaised
    \/ GetMissed
    \/ GetBadBody
    \/ GetObserve
    \/ DeleteHandle
    \/ SendSuccess
    \/ SendRetryable
    \/ SendOther
    \/ SendNetFail
    \/ SendExhausted

SpecMain == InitMain /\ [][NextMain]_vars

\* ------------------------------------------------------------ properties
Last(s) == s[Len(s)]
RetryableOutcome(o) == o.kind = "status" /\ o.status \in {429, 500, 502, 503, 504}
SuccessOutcome(o) == o.kind = "status" /\ o.status \in 200..299
TransientOutcome(o) == o.kind = "netfail" \/ RetryableOutcome(o)
AllOutcomes(P(_)) == \A i \in 1..Len(outcomes) : P(outcomes[i])

\* C1: with max_retries >= 2, a call whose exchanges answer two retryable
\* statuses and then a 2xx status makes exactly three exchanges, sleeps
\* exactly twice and returns the 2xx response.
C1_TwoRetriesThenSuccess ==
    ( /\ spc = "done"
      /\ max_retries >= 2
      /\ Len(outcomes) >= 2
      /\ RetryableOutcome(outcomes[1])
      /\ RetryableOutcome(outcomes[2])
      /\ (Len(outcomes) >= 3 => SuccessOutcome(outcomes[3])) )
    => ( /\ Len(outcomes) = 3
         /\ Len(sleeps) = 2
         /\ sresult.kind = "response"
         /\ sresult.status = outcomes[3].status )

\* C2: a finished call all of whose exchanges answered a retryable status
\* returns the last failing response (a response value, not None, no raise).
C2_ExhaustedReturnsResponse ==
    ( /\ spc = "done"
      /\ Len(outcomes) >= 1
      /\ AllOutcomes(RetryableOutcome) )
    => ( /\ sresult.kind = "response"
         /\ sresult.status = Last(outcomes).status )

\* C3: a finished call all of whose attempts failed transiently made exactly
\* max_retries + 1 exchanges, each signed afresh.
C3_AttemptsAreRetriesPlusOne ==
    ( /\ spc = "done"
      /\ method \in SupportedMethods
      /\ AllOutcomes(TransientOutcome) )
    => ( /\ Len(outcomes) = max_retries + 1
         /\ signs = Len(outcomes) )

\* C4: the i-th sleep of a call is taken right after the i-th failed attempt
\* and lasts base^i seconds, so the sleeps of a call strictly increase.
C4_BackoffIsPowerOfBase ==
    \A i \in 1..Len(sleeps) :
        /\ i <= Len(outcomes)
        /\ TransientOutcome(outcomes[i])
        /\ sleeps[i].after = i
        /\ sleeps[i].secs = BackoffBase ^ i
        /\ (i > 1 => sleeps[i].secs > sleeps[i - 1].secs)

\* C4 witness: three sleeps, after failures of both kinds.
C4_Witness ==
    /\ Len(sleeps) = 3
    /\ outcomes[1].kind = "netfail"
    /\ RetryableOutcome(outcomes[2])
    /\ RetryableOutcome(outcomes[3])

\* C5: every sleep of a finished call was followed by another exchange of
\* the same call.
C5_SleepOnlyBeforeRetry ==
    spc = "done" => \A i \in 1..Len(sleeps) : sleeps[i].after < Len(outcomes)

\* C6: when the first exchange answers a status outside the retryable list
\* (2xx or not), the call is over at once: one exchange, no sleep, no retry,
\* and that response is what it returns.
C6_NonRetryableReturnsAtOnce ==
    ( /\ Len(outcomes) >= 1
      /\ outcomes[1].kind = "status"
      /\ outcomes[1].status \notin {429, 500, 502, 503, 504} )
    => ( /\ spc = "done"
         /\ Len(outcomes) = 1
         /\ signs = 1
         /\ retry_count = 0
         /\ sleeps = <<>>
         /\ sresult.kind = "response"
         /\ sresult.status = outcomes[1].status )

\* C6 witness: a 404 on the first exchange of a call that had retries left.
C6_Witness ==
    /\ spc = "done"
    /\ max_retries = 3
    /\ outcomes = <<StatusOutcome(404)>>
    /\ sresult.status = 404

\* C7: right after an exchange that failed at network level, either attempts
\* remain, and then the call has slept base^n and is about to try again, or
\* it was the last allowed attempt, and then the call has raised, without
\* sleeping and without returning a response or None.
C7_NetFailRetriesOrRaises ==
    ( /\ Len(outcomes) >= 1
      /\ Last(outcomes).kind = "netfail" )
    => IF Len(outcomes) < max_retries
       THEN /\ spc = "loop"
            /\ retry_count < max_retries
            /\ Len(sleeps) >= 1
            /\ Last(sleeps).after = Len(outcomes)
            /\ Last(sleeps).secs = BackoffBase ^ Len(outcomes)
       ELSE /\ spc = "done"
            /\ sresult = Raised("RequestException")
            /\ \A i \in 1..Len(sleeps) : sleeps[i].after < Len(outcomes)

\* C7 witness: the last allowed attempt fails at network level after two
\* attempts that failed with a retryable status.
C7_Witness ==
    /\ max_retries = 3
    /\ Len(outcomes) = 3
    /\ RetryableOutcome(outcomes[1])
    /\ RetryableOutcome(outcomes[2])
    /\ outcomes[3].kind = "netfail"
    /\ sresult.kind = "raise"

TerminalFailure == {"error", "dead", "killed"}

\* C8: in wait_for_session_ready, a poll that reads state 'idle' is the last
\* poll of the call, whatever non-terminal states the polls before it read:
\* the call has returned True and no request is running or issued after it.
C8_ReadyAtFirstIdle ==
    op = "wait" =>
        /\ \A i \in 1..Len(observed) :
              observed[i] = "idle" =>
                  /\ i = Len(observed)
                  /\ polls >= i
                  /\ opc = "done"
                  /\ spc = "idle"
                  /\ oend = "ready"
                  /\ oresult = OReturn("True")
        /\ (opc = "done" /\ oresult = OReturn("True")) =>
              (Len(observed) >= 1 /\ Last(observed) = "idle")

\* C8 witness: 'idle' on the third poll, after two polls that read 'starting'.
C8_Witness ==
    /\ op = "wait"
    /\ opc = "done"
    /\ observed = <<"starting", "starting", "idle">>
    /\ oresult = OReturn("True")

\* C9: in wait_for_session_ready, a poll that reads 'error', 'dead' or
\* 'killed' is the last poll of the call: the call has returned False (a
\* value, not an exception) and no request is running or issued after it.
C9_FailedStateReturnsFalse ==
    op = "wait" =>
        \A i \in 1..Len(observed) :
            observed[i] \in TerminalFailure =>
                /\ i = Len(observed)
                /\ opc = "done"
                /\ spc = "idle"
                /\ oend = "failed"
                /\ oresult = OReturn("False")

\* C9 witness: each terminal failure state ends a call that polled before.
C9_Witness ==
    /\ op = "wait"
    /\ opc = "done"
    /\ observed = <<"busy", "killed">>
    /\ oresult.kind = "return"

\* Every poll of the call read 'starting', and there was one.
OnlyStartingSeen ==
    /\ polls >= 1
    /\ Len(observed) = polls
    /\ \A i \in 1..Len(observed) : observed[i] = "starting"

C11_MissedPollNeverFails ==
    (op = "wait" /\ opc = "done") => oresult # ORaised("RequestException")

StatementTerminal == {"available", "error", "cancelled"}

\* C12: in get_statement_result, a poll that reads state 'available', 'error'
\* or 'cancelled' is the last poll of the call, whatever 'waiting'/'running'
\* polls came before it, and the call returns the record of that poll, state
\* and result payload as received.
C12_ReturnsFirstTerminalRecord ==
    op = "get" =>
        /\ \A i \in 1..Len(observed) :
              observed[i].state \in StatementTerminal =>
                  /\ i = Len(observed)
                  /\ opc = "done"
                  /\ spc = "idle"
                  /\ oresult.kind = "return"
                  /\ oresult.value = "statement_data"
                  /\ oresult.data = observed[i]
        /\ (opc = "done" /\ oresult.value = "statement_data") =>
              /\ Len(observed) >= 1
              /\ Last(observed).state \in StatementTerminal

\* C12 witness: 'available' with result 2 on the third poll, after a
\* 'waiting' and a 'running' poll.
C12_Witness ==
    /\ op = "get"
    /\ opc = "done"
    /\ Len(observed) = 3
    /\ observed[1].state = "waiting"
    /\ observed[2].state = "running"
    /\ oresult.data = [state |-> "available", result |-> "2"]

\* C13: get_statement_result ends on the timeout exactly when it returns
\* None, and None is never what it returns for a poll that read a terminal
\* state: the two outcomes differ.
C13_TimeoutDiffersFromTerminal ==
    (op = "get" /\ opc = "done") =>
        /\ (oend = "timeout") <=> (oresult = OReturn(None))
        /\ oend = "timeout" =>
              /\ elapsed >= timeout
              /\ \A i \in 1..Len(observed) :
                    observed[i].state \notin StatementTerminal
        /\ oend \in {"available", "failed"} =>
              /\ oresult.value = "statement_data"
              /\ oresult.data.state \in StatementTerminal

\* C13 witness: two polls read a non-terminal state and the call timed out.
C13_Witness ==
    /\ op = "get"
    /\ opc = "done"
    /\ oend = "timeout"
    /\ Len(observed) = 2
    /\ observed[1].state = "waiting"
    /\ observed[2].state = "running"

NoOpDelete == [end |-> "nosession", result |-> "False", polls |-> 0,
               handle |-> None]

\* C14: a delete_session call whose DELETE exchange got a 2xx answer returns
\* True and clears the handle; every delete_session call after it (before a
\* new create_session) returns False without sending a request and without
\* raising.
C14_DeleteTwice ==
    /\ [](\A i \in 1..Len(mdel) :
            mdel[i].end = "deleted" =>
                /\ mdel[i].result = "True"
                /\ mdel[i].polls = 1
                /\ \A j \in (i + 1)..Len(mdel) : mdel[j] = NoOpDelete)
    /\ []((op = "delete" /\ oend = "deleted") => session_url = None)
    /\ [][(/\ op = "delete"
           /\ opc = "run"
           /\ spc = "done"
           /\ sresult.kind = "response"
           /\ sresult.status \in 200..299)
          => (/\ oresult' = OReturn("True")
              /\ session_url' = None)]_vars

\* C14 witness: two delete_session calls in a row, the first successful.
C14_Witness ==
    /\ Len(mdel) = 2
    /\ mdel[1].end = "deleted"
    /\ mdel[2] = NoOpDelete
    /\ mcreated

CreatedResponse(r) ==
    /\ r.kind = "response"
    /\ r.status \in 200..299
    /\ r.location # None

C17_HandleImmutable ==
    [][session_url # None =>
          \/ session_url' = session_url
          \/ /\ op = "delete"
             /\ oend' = "deleted"
             /\ session_url' = None]_vars

\* The DELETE request got no response or a response that is not 2xx.
DeleteRefused(r) ==
    \/ r.kind = "none"
    \/ r.kind = "response" /\ r.status \notin 200..299

\* C19: when the DELETE of a delete_session call is refused, the call
\* returns False and keeps the handle; a delete_session call after it sends
\* one DELETE, addressed to that same location.
C19_FailedDeleteKeepsHandle ==
    /\ [][(op = "delete" /\ opc = "run" /\ spc = "done"
              /\ DeleteRefused(sresult))
          => (/\ oresult' = OReturn("False")
              /\ oend' = "failed"
              /\ session_url' = session_url)]_vars
    /\ [](\A i \in 1..Len(mdel) :
            mdel[i].end = "failed" =>
                /\ mdel[i].result = "False"
                /\ mdel[i].handle # None
                /\ i < Len(mdel) =>
                       /\ mdel[i + 1].end # "nosession"
                       /\ mdel[i + 1].polls = 1)
    /\ []((op = "delete" /\ spc = "loop") =>
              /\ method = "DELETE"
              /\ path = session_url
              /\ (Len(mdel) >= 1 /\ mdel[Len(mdel)].end = "failed") =>
                     path = mdel[Len(mdel)].handle)

\* C19 witness: a refused delete_session followed by a second one that sent
\* its DELETE.
C19_Witness ==
    /\ Len(mdel) = 2
    /\ mdel[1].end = "failed"
    /\ mdel[1].handle \in Locations
    /\ mdel[2].polls = 1
    /\ mdel[2].end = "deleted"

\* C18: when main() ends after its create_session succeeded, it has called
\* delete_session at least once; each of its delete_session calls sent a
\* DELETE, and none follows a delete_session that succeeded.
C18_MainDeletes ==
    /\ (mpc = "end" /\ mcreated) => Len(mdel) >= 1
    /\ \A i \in 1..Len(mdel) :
          /\ mdel[i].polls = 1
          /\ i < Len(mdel) => mdel[i].end # "deleted"

\* C18 witness: main() has ended on a session that did not become ready,
\* after a refused delete_session and a second one in the finally block.
C18_Witness ==
    /\ mpc = "end"
    /\ mcreated
    /\ Len(mdel) = 2
    /\ mdel[1].end = "failed"
    /\ mdel[2].end = "deleted"

\* The failed attempts of the call so far, of either kind.
FailedAttempts ==
    Cardinality({i \in 1..Len(outcomes) : TransientOutcome(outcomes[i])})

\* C20: a _send_request call ends; its counter counts the failed attempts of
\* both kinds together; a step of its loop ends the call or adds one to the
\* counter; and the call makes at most max_retries exchanges.
C20_SendTerminates ==
    /\ [](op = "send" => /\ retry_count = FailedAttempts
                         /\ Len(outcomes) <= max_retries)
    /\ [][(op = "send" /\ spc = "loop") =>
             \/ spc' = "done"
             \/ /\ spc' = "loop"
                /\ retry_count' = retry_count + 1]_vars
    /\ ((op = "send" /\ spc = "loop") ~> spc = "done")

\* C20 witness: a call that has ended after max_retries failed attempts of
\* both kinds.
C20_Witness ==
    /\ op = "send"
    /\ spc = "done"
    /\ max_retries = MaxRetriesBound
    /\ retry_count = max_retries
    /\ Len(outcomes) = max_retries
    /\ \E i, j \in 1..Len(outcomes) :
          /\ outcomes[i].kind = "netfail"
          /\ RetryableOutcome(outcomes[j])

====
